---- MODULE Spec2Model ----
(***************************************************************************)
(* Model of orchid.widgets.web: WebPage (a QWebEnginePage) and WebView (a  *)
(* QWebEngineView).  Every handler of the two classes is one action.  An   *)
(* action records what the handler did in `last`: the calls it made on its *)
(* collaborators, the signals it emitted, the value it returned and the    *)
(* exception that left it, if any.  State that outlives a handler is kept  *)
(* in its own variable.                                                    *)
(*                                                                         *)
(* The handlers run on the UI thread, one at a time, in the order the      *)
(* engine delivers the events; an exception that leaves a handler ends     *)
(* that handler only (the assignments made before it stay).                *)
(***************************************************************************)
EXTENDS Integers, Sequences, FiniteSets, TLC

(* ---- bounds ---- *)
MaxTabs == 2
MaxCerts == 3

(* ---- values ---- *)
\* WebPage.WebAction
WebAction == {"Forward", "Back", "Reload", "Stop"}

\* WebPage.WebWindowType
WebWindowType == {"WebBrowserWindow", "WebBrowserTab", "WebDialog", "WebBrowserBackgroundTab"}

\* a requested type that is none of the four members
UnknownWindowType == "Unknown"

\* the keys of the `features` dictionary of _on_feature_permission_requested
MappedFeatures ==
    {"Geolocation", "MediaAudioCapture", "MediaVideoCapture", "MediaAudioVideoCapture",
     "MouseLock", "DesktopVideoCapture", "DesktopAudioVideoCapture"}

\* features of the engine the dictionary has no key for
UnmappedFeatures == {"Notifications"}

\* the features requests are made for: the first and the last key, and an unmapped one
RequestedFeatures == {"Geolocation", "DesktopAudioVideoCapture"} \cup UnmappedFeatures

Origins == {"a.example", "b.example"}

\* QWebEngineView.icon() returns a QIcon by value: the page's favicon, or the
\* null QIcon when the page has none.  It never returns Python's None.
NullIcon == "QIcon()"
Favicons == {"favicon_a"}
NativeIcons == Favicons \cup {NullIcon}
None == "None"

SP_BrowserStop == "SP_BrowserStop"
SP_BrowserReload == "SP_BrowserReload"
SP_MessageBoxInformation == "SP_MessageBoxInformation"
StatusIcons == {SP_BrowserStop, SP_BrowserReload, SP_MessageBoxInformation}

\* the values loadProgress(int) is delivered with: representatives of 0..100
ProgressInputs == {0, 45, 100}

\* the certificates of a QWebEngineClientCertificateSelection, in list order
AllCerts == [i \in 1..(MaxCerts + 1) |-> <<"cert", i>>]
Certificates(n) == SubSeq(AllCerts, 1, n)

\* the QAuthenticator the engine hands to a handler
Authenticators ==
    { [isNull |-> TRUE, user |-> "", password |-> ""],
      [isNull |-> FALSE, user |-> "", password |-> ""],
      [isNull |-> FALSE, user |-> "cached", password |-> "cached"] }

NoAuth == [isNull |-> TRUE, user |-> "", password |-> ""]

VARIABLES
    load_progress,   \* WebView._load_progress
    icon,            \* what QWebEngineView.icon() returns
    actionEnabled,   \* page.action(a).isEnabled(), per WebAction
    connections,     \* the signal connections made so far: a set of <<signal, slot>>
    setPageCalled,   \* set_page(page) has been called
    popupConstructed, \* createWindow has constructed a PopupWindow
    tabCount,        \* tab container: the tabs are 1..tabCount
    currentTab,      \* tab container: the current tab
    loadEvent,       \* the last load event delivered to the view
    last             \* what the last handler did

vars == <<load_progress, icon, actionEnabled, connections, setPageCalled, popupConstructed,
          tabCount, currentTab, loadEvent, last>>

\* the record of one handler run
Did(op, arg, calls, emitted, result, raised) ==
    [op |-> op, arg |-> arg, calls |-> calls, emitted |-> emitted,
     result |-> result, raised |-> raised, auth |-> NoAuth, menu |-> <<>>]

NoException == ""

(* ---- WebView: load lifecycle ---- *)

\* self.get_icon(): neither WebView nor QWebEngineView has the attribute
GetIconLookup == "AttributeError"

\* _on_load_started: the assignment, then emit(self.get_icon()) raises before emitting
OnLoadStarted ==
    /\ load_progress' = 0
    /\ loadEvent' = [kind |-> "started", progress |-> 0, success |-> TRUE]
    /\ last' = Did("loadStarted", <<>>, <<>>, <<>>, <<>>, GetIconLookup)
    /\ UNCHANGED <<icon, actionEnabled, connections, setPageCalled, popupConstructed, tabCount, currentTab>>

\* the engine's order of delivery: load-started, then load-progress events, then one
\* load-finished; a new load may start at any time
LoadInProgress == loadEvent.kind \in {"started", "progress"}

LoadProgressAfterProgressClamped(cur, progress) == IF progress > cur THEN progress ELSE cur

\* _on_load_progress_changed: the value stored for load-progress(progress)
LoadProgressAfterProgress(cur, progress) == progress

OnLoadProgressChanged(progress) ==
    /\ LoadInProgress
    /\ load_progress' = LoadProgressAfterProgress(load_progress, progress)
    /\ loadEvent' = [kind |-> "progress", progress |-> progress, success |-> TRUE]
    /\ last' = Did("loadProgress", <<progress>>, <<>>, <<>>, <<>>, NoException)
    /\ UNCHANGED <<icon, actionEnabled, connections, setPageCalled, popupConstructed, tabCount, currentTab>>

\* _on_load_finished: the value stored for load-finished(success)
LoadProgressAfterFinished(success) == IF success THEN 100 ELSE -1

OnLoadFinished(success) ==
    /\ LoadInProgress
    /\ load_progress' = LoadProgressAfterFinished(success)
    /\ loadEvent' = [kind |-> "finished", progress |-> 0, success |-> success]
    /\ last' = Did("loadFinished", <<success>>, <<>>, <<>>, <<>>, NoException)
    /\ UNCHANGED <<icon, actionEnabled, connections, setPageCalled, popupConstructed, tabCount, currentTab>>

\* iconChanged(icon) of the engine, delivered to _on_favicon_changed:
\* emit(self.get_icon()) raises before emitting
OnFaviconChanged(newIcon) ==
    /\ icon' = newIcon
    /\ last' = Did("iconChanged", <<newIcon>>, <<>>, <<>>, <<>>, GetIconLookup)
    /\ UNCHANGED <<load_progress, actionEnabled, connections, setPageCalled, popupConstructed, tabCount,
                   currentTab, loadEvent>>

get_load_progress == load_progress

(* ---- WebView: get_favicon ---- *)

GetFaviconStatusFirst(nativeIcon, progress) ==
    IF progress < 0 THEN SP_BrowserStop
    ELSE IF progress < 100 THEN SP_BrowserReload
    ELSE IF nativeIcon # None THEN nativeIcon
    ELSE SP_MessageBoxInformation

\* get_favicon, of icon() and _load_progress
GetFavicon(nativeIcon, progress) ==
    IF nativeIcon # None THEN nativeIcon
    ELSE IF progress < 0 THEN SP_BrowserStop
    ELSE IF progress < 100 THEN SP_BrowserReload
    ELSE SP_MessageBoxInformation

get_favicon == GetFavicon(icon, load_progress)

(* ---- tab container (orchid.widgets.windows) ---- *)

\* add_tab: a new tab, made the current one; its view is returned
add_tab == [count |-> tabCount + 1, current |-> tabCount + 1, view |-> tabCount + 1]

\* add_background_tab: a new tab, the current one stays; its view is returned
add_background_tab == [count |-> tabCount + 1, current |-> currentTab, view |-> tabCount + 1]

\* current_tab: the current tab's view; nothing is created
current_tab == [count |-> tabCount, current |-> currentTab, view |-> currentTab]

TabOperation(name) ==
    CASE name = "add_tab" -> add_tab
      [] name = "add_background_tab" -> add_background_tab
      [] name = "current_tab" -> current_tab

(* ---- WebView: createWindow ---- *)

CreateWindowRouteSwapped(window_type) ==
    CASE window_type = "WebBrowserTab" -> "add_background_tab"
      [] window_type = "WebBrowserBackgroundTab" -> "current_tab"
      [] window_type = "WebBrowserWindow" -> "add_tab"
      [] window_type = "WebDialog" -> "PopupWindow"
      [] OTHER -> None

\* the branch createWindow takes for window_type
CreateWindowRoute(window_type) ==
    CASE window_type = "WebBrowserTab" -> "add_tab"
      [] window_type = "WebBrowserBackgroundTab" -> "add_background_tab"
      [] window_type = "WebBrowserWindow" -> "current_tab"
      [] window_type = "WebDialog" -> "PopupWindow"
      [] OTHER -> None

\* signal_dev_tools_requested.emit(self.page())
DevToolsRequestedEmission == <<"signal_dev_tools_requested", "page">>

createWindow(window_type) ==
    LET route == CreateWindowRoute(window_type) IN
    /\ route \in {"add_tab", "add_background_tab"} => tabCount < MaxTabs
    /\ IF route \in {"add_tab", "add_background_tab", "current_tab"}
       THEN LET t == TabOperation(route) IN
            /\ tabCount' = t.count
            /\ currentTab' = t.current
            /\ last' = Did("createWindow", <<window_type>>, <<route>>, <<>>,
                           <<t.view>>, NoException)
            /\ UNCHANGED popupConstructed
       ELSE IF route = "PopupWindow"
       THEN \* PopupWindow(profile) is constructed; connect(self._on_dev_tools_requested())
            \* runs the handler, which emits, and hands its None to connect: TypeError
            /\ last' = Did("createWindow", <<window_type>>, <<"PopupWindow">>,
                           <<DevToolsRequestedEmission>>, <<>>, "TypeError")
            /\ popupConstructed' = TRUE
            /\ UNCHANGED <<tabCount, currentTab>>
       ELSE /\ last' = Did("createWindow", <<window_type>>, <<>>, <<>>, <<None>>, NoException)
            /\ UNCHANGED <<tabCount, currentTab, popupConstructed>>
    /\ UNCHANGED <<load_progress, icon, actionEnabled, connections, setPageCalled, loadEvent>>

(* ---- what the PyQt5 binding accepts ---- *)

\* QWebEnginePage is a QObject and no QWidget; QWebEngineView is a QWidget.
\* QDialog(parent), QMessageBox.critical(parent, ..) and QMessageBox.question(parent, ..)
\* take a QWidget parent and raise TypeError for anything else.
WidgetParent(self) == IF self = "WebView" THEN NoException ELSE "TypeError"

\* a slot is called with the signal's arguments, or with fewer when it takes
\* fewer; a slot that requires more than the signal carries raises TypeError
SlotCall(signalArgs, slotParams) ==
    IF Len(slotParams) <= Len(signalArgs) THEN NoException ELSE "TypeError"

\* attribute lookup on the objects the handlers use
Attributes(type) ==
    CASE type = "str" -> {"format", "strip", "lower"}
      [] type = "list" -> {"index", "append", "count"}
      [] type = "QMenu" -> {"actions", "addSeparator", "insertAction", "addAction", "popup"}
      [] OTHER -> {}

Lookup(type, name) == IF name \in Attributes(type) THEN NoException ELSE "AttributeError"

(* ---- WebPage ---- *)

\* certificateError(error): error.isOverridable() is `overridable`; `accepted`
\* is whether the user would accept the dialog
certificateError(overridable, accepted) ==
    /\ last' =
         IF overridable
         THEN IF WidgetParent("WebPage") = NoException
              THEN Did("certificateError", <<overridable, accepted>>,
                       <<"QDialog", "setModal", "setWindowTitle:Certificate Error", "exec">>,
                       <<>>, <<accepted>>, NoException)
              ELSE Did("certificateError", <<overridable, accepted>>, <<>>, <<>>, <<>>,
                       WidgetParent("WebPage"))
         ELSE IF WidgetParent("WebPage") = NoException
              THEN Did("certificateError", <<overridable, accepted>>, <<"QMessageBox.critical">>,
                       <<>>, <<FALSE>>, NoException)
              ELSE Did("certificateError", <<overridable, accepted>>, <<>>, <<>>, <<>>,
                       WidgetParent("WebPage"))
    /\ UNCHANGED <<load_progress, icon, actionEnabled, connections, setPageCalled, popupConstructed, tabCount,
                   currentTab, loadEvent>>

\* the body shared by _on_authentication_required and _on_proxy_authentication_required:
\* the dialog is constructed and never executed; `auth = None` rebinds the
\* parameter and leaves the engine's QAuthenticator as it was
AuthenticationHandler(op, auth) ==
    /\ last' =
         IF WidgetParent("WebPage") = NoException
         THEN [Did(op, <<auth>>, <<"QDialog", "setModal", "setWindowFlags">>, <<>>, <<>>,
                   NoException) EXCEPT !.auth = auth]
         ELSE [Did(op, <<auth>>, <<>>, <<>>, <<>>, WidgetParent("WebPage"))
                   EXCEPT !.auth = auth]
    /\ UNCHANGED <<load_progress, icon, actionEnabled, connections, setPageCalled, popupConstructed, tabCount,
                   currentTab, loadEvent>>

OnAuthenticationRequired(auth) == AuthenticationHandler("authenticationRequired", auth)

OnProxyAuthenticationRequired(auth) ==
    AuthenticationHandler("proxyAuthenticationRequired", auth)

\* features.get(feature, ""): the question, a str
Question(origin, feature) == IF feature \in MappedFeatures THEN <<feature, origin>> ELSE <<>>

\* _on_feature_permission_requested(self, request, feature, Feature), connected to
\* featurePermissionRequested(request, feature); `answer` is what the user
\* would answer the question with
OnFeaturePermissionRequested(origin, feature, answer) ==
    LET call == SlotCall(<<"request", "feature">>, <<"request", "feature", "Feature">>)
        isEmpty == Lookup("str", "isEmpty")
        question == Question(origin, feature)
        arg == <<origin, feature, answer>>
    IN
    /\ last' =
         IF call # NoException
         THEN Did("featurePermissionRequested", arg, <<>>, <<>>, <<>>, call)
         ELSE IF isEmpty # NoException
         THEN Did("featurePermissionRequested", arg, <<>>, <<>>, <<>>, isEmpty)
         ELSE IF question # <<>> /\ WidgetParent("WebPage") # NoException
         THEN Did("featurePermissionRequested", arg, <<>>, <<>>, <<>>,
                  WidgetParent("WebPage"))
         ELSE IF question # <<>> /\ answer = "Yes"
         THEN Did("featurePermissionRequested", arg,
                  <<<<"QMessageBox.question", question>>,
                    <<"setFeaturePermission", origin, feature, "PermissionGrantedByUser">>>>,
                  <<>>, <<>>, NoException)
         ELSE Did("featurePermissionRequested", arg,
                  (IF question # <<>> THEN <<<<"QMessageBox.question", question>>>> ELSE <<>>)
                  \o <<<<"setFeaturePermission", origin, feature, "PermissionDeniedByUser">>>>,
                  <<>>, <<>>, NoException)
    /\ UNCHANGED <<load_progress, icon, actionEnabled, connections, setPageCalled, popupConstructed, tabCount,
                   currentTab, loadEvent>>

\* _on_register_protocol_handler_requested(request)
OnRegisterProtocolHandlerRequested(origin, answer) ==
    /\ last' =
         IF WidgetParent("WebPage") # NoException
         THEN Did("registerProtocolHandlerRequested", <<origin, answer>>, <<>>, <<>>, <<>>,
                  WidgetParent("WebPage"))
         ELSE Did("registerProtocolHandlerRequested", <<origin, answer>>,
                  <<"QMessageBox.question",
                    IF answer = "Yes" THEN "request.accept" ELSE "request.reject">>,
                  <<>>, <<>>, NoException)
    /\ UNCHANGED <<load_progress, icon, actionEnabled, connections, setPageCalled, popupConstructed, tabCount,
                   currentTab, loadEvent>>

\* _on_select_client_certificate(selection): selection.certificates() is a Python
\* list of n certificates, and a list has no attribute `at`
OnSelectClientCertificate(n) ==
    LET certs == Certificates(n)
        at == Lookup("list", "at")
    IN
    /\ last' =
         IF at # NoException
         THEN Did("selectClientCertificate", <<n>>, <<>>, <<>>, <<>>, at)
         ELSE Did("selectClientCertificate", <<n>>, <<<<"select", certs[1]>>>>, <<>>, <<>>,
                  NoException)
    /\ UNCHANGED <<load_progress, icon, actionEnabled, connections, setPageCalled, popupConstructed, tabCount,
                   currentTab, loadEvent>>

(* ---- WebView: web actions ---- *)

\* _on_webaction_changed(webaction, state)
OnWebactionChanged(webaction, state) ==
    <<"signal_webaction_state_changed", webaction, state>>

\* set_page(page).  page.action(webaction) is handed a member of the Python Enum
\* WebPage.WebAction where the binding wants a QWebEnginePage.WebAction:
\* `enumAccepted` is whether the binding converts it.  When it does, line 276
\* runs the handler at once and hands its None to connect, which raises.
\* Nothing is connected and super().setPage(page) is not reached.
set_page(enumAccepted) ==
    /\ last' =
         IF ~enumAccepted
         THEN Did("set_page", <<"page">>, <<>>, <<>>, <<>>, "TypeError")
         ELSE Did("set_page", <<"page">>, <<"page.action", "isEnabled">>,
                  <<OnWebactionChanged("Forward", actionEnabled["Forward"])>>,
                  <<>>, "TypeError")
    /\ setPageCalled' = TRUE
    /\ UNCHANGED <<load_progress, icon, actionEnabled, connections, popupConstructed, tabCount,
                   currentTab, loadEvent>>

\* the page reports that the enabled state of `webaction` changed (QAction.changed):
\* the slots connected to the signal run
ActionChanged(webaction, state) ==
    /\ actionEnabled' = [actionEnabled EXCEPT ![webaction] = state]
    /\ last' = Did("actionChanged", <<webaction, state>>, <<>>,
                   IF <<webaction, "_on_webaction_changed">> \in connections
                   THEN <<OnWebactionChanged(webaction, state)>> ELSE <<>>,
                   <<>>, NoException)
    /\ UNCHANGED <<load_progress, icon, connections, setPageCalled, popupConstructed, tabCount, currentTab,
                   loadEvent>>

RenderProcessTerminationStatus ==
    {"NormalTerminationStatus", "AbnormalTerminationStatus", "CrashedTerminationStatus",
     "KilledTerminationStatus"}

\* _on_render_process_terminated(status, status_code): with no branch taken msg
\* is unbound; otherwise QMessageBox.Question, an enum value, is called
OnRenderProcessTerminated(status) ==
    /\ last' = Did("renderProcessTerminated", <<status>>, <<>>, <<>>, <<>>,
                   IF status \in RenderProcessTerminationStatus
                   THEN "TypeError" ELSE "UnboundLocalError")
    /\ UNCHANGED <<load_progress, icon, actionEnabled, connections, setPageCalled, popupConstructed, tabCount,
                   currentTab, loadEvent>>

(* ---- WebView: contextMenuEvent ---- *)

InspectElement == [action |-> "InspectElement", text |-> "Inspect"]
ViewSource == [action |-> "ViewSource", text |-> "View page source"]

\* page().createStandardContextMenu(): the entries of the engine's menu
StandardContextMenu(hasViewSource, hasInspect) ==
    <<[action |-> "Back", text |-> "Back"], [action |-> "Reload", text |-> "Reload"]>>
    \o (IF hasViewSource THEN <<ViewSource>> ELSE <<>>)
    \o (IF hasInspect THEN <<InspectElement>> ELSE <<>>)

Contains(menu, action) == \E i \in 1..Len(menu) : menu[i].action = action

\* actions[actions.index(webaction)].setText(text)
Relabel(menu, action, text) ==
    [i \in 1..Len(menu) |->
        IF menu[i].action = action THEN [menu[i] EXCEPT !.text = text] ELSE menu[i]]

\* menu.insertAction(action): QWidget.insertAction takes (before, action)
InsertActionCall == SlotCall(<<"action">>, <<"before", "action">>)

contextMenuEvent(hasViewSource, hasInspect) ==
    LET menu == StandardContextMenu(hasViewSource, hasInspect)
        arg == <<hasViewSource, hasInspect>>
        sep == Lookup("QMenu", "addSeperator")
        withSep == IF Contains(menu, "ViewSource") THEN menu
                   ELSE Append(menu, [action |-> "separator", text |-> ""])
        new == [action |-> "QAction", text |-> "Open inspector in new window"]
        wired == connections \cup {<<"QAction.triggered", "_on_dev_tools_requested">>}
    IN
    /\ IF ~Contains(menu, "InspectElement")
       THEN IF ~Contains(menu, "ViewSource") /\ sep # NoException
            THEN /\ last' = [Did("contextMenuEvent", arg, <<>>, <<>>, <<>>, sep)
                                EXCEPT !.menu = menu]
                 /\ connections' = connections
            ELSE IF InsertActionCall # NoException
            THEN /\ last' = [Did("contextMenuEvent", arg, <<"QAction", "connect">>, <<>>,
                                 <<>>, InsertActionCall) EXCEPT !.menu = withSep]
                 /\ connections' = wired
            ELSE /\ last' = [Did("contextMenuEvent", arg,
                                 <<"QAction", "connect", "insertAction", "menu.popup">>,
                                 <<>>, <<>>, NoException)
                                EXCEPT !.menu = Append(withSep, new)]
                 /\ connections' = wired
       ELSE /\ last' = [Did("contextMenuEvent", arg, <<"menu.popup">>, <<>>, <<>>,
                            NoException)
                           EXCEPT !.menu = Relabel(menu, "InspectElement", "Inspect element")]
            /\ connections' = connections
    /\ UNCHANGED <<load_progress, icon, actionEnabled, setPageCalled, popupConstructed, tabCount, currentTab,
                   loadEvent>>

\* what QMessageBox.question returns: dismissing the box answers No
Answers == {"Yes", "No"}

(* ---- popup window (orchid.widgets.windows) ---- *)

\* the connection createWindow is to make for a popup it constructs
PopupConnection == <<"PopupWindow.signal_dev_tools_requested", "_on_dev_tools_requested">>

\* a PopupWindow constructed by createWindow fires signal_dev_tools_requested:
\* the slots connected to the signal run
PopupDevToolsRequested ==
    /\ popupConstructed
    /\ last' = Did("popupDevToolsRequested", <<>>, <<>>,
                   IF PopupConnection \in connections
                   THEN <<DevToolsRequestedEmission>> ELSE <<>>,
                   <<>>, NoException)
    /\ UNCHANGED <<load_progress, icon, actionEnabled, connections, setPageCalled,
                   popupConstructed, tabCount, currentTab, loadEvent>>

Init ==
    /\ load_progress = 100
    /\ icon = NullIcon
    /\ actionEnabled = [a \in WebAction |-> FALSE]
    /\ connections = {}
    /\ setPageCalled = FALSE
    /\ popupConstructed = FALSE
    /\ tabCount = 1
    /\ currentTab = 1
    /\ loadEvent = [kind |-> "none", progress |-> 0, success |-> TRUE]
    /\ last = Did("init", <<>>, <<>>, <<>>, <<>>, NoException)

Next ==
    \/ OnLoadStarted
    \/ \E p \in ProgressInputs : OnLoadProgressChanged(p)
    \/ \E s \in BOOLEAN : OnLoadFinished(s)
    \/ \E i \in NativeIcons : OnFaviconChanged(i)
    \/ \E t \in WebWindowType \cup {UnknownWindowType} : createWindow(t)
    \/ \E o \in BOOLEAN, a \in BOOLEAN : certificateError(o, a)
    \/ \E auth \in Authenticators : OnAuthenticationRequired(auth)
    \/ \E auth \in Authenticators : OnProxyAuthenticationRequired(auth)
    \/ \E o \in Origins, f \in RequestedFeatures, a \in Answers : OnFeaturePermissionRequested(o, f, a)
    \/ \E o \in Origins, a \in Answers : OnRegisterProtocolHandlerRequested(o, a)
    \/ \E n \in 1..MaxCerts : OnSelectClientCertificate(n)
    \/ \E e \in BOOLEAN : set_page(e)
    \/ \E a \in WebAction, s \in BOOLEAN : ActionChanged(a, s)
    \/ \E s \in RenderProcessTerminationStatus \cup {"Unknown"} : OnRenderProcessTerminated(s)
    \/ \E v \in BOOLEAN, i \in BOOLEAN : contextMenuEvent(v, i)
    \/ PopupDevToolsRequested

Spec == Init /\ [][Next]_vars

(* ======================= properties ======================= *)

TypeOK ==
    /\ load_progress \in {-1} \cup ProgressInputs
    /\ icon \in NativeIcons
    /\ actionEnabled \in [WebAction -> BOOLEAN]
    /\ setPageCalled \in BOOLEAN
    /\ popupConstructed \in BOOLEAN
    /\ tabCount \in 1..MaxTabs
    /\ currentTab \in 1..tabCount

\* the entries of a handler's call trace that are a call of `name` with arguments
CallsOf(name) == SelectSeq(last.calls, LAMBDA c : c[1] = name)

\* C1 as written: get_load_progress() is 0 right after load-started, never decreases
\* from one load event to a following load-progress event of the same load, and is
\* 100 after load-finished(true) and -1 after load-finished(false).
C1_ProgressNeverDecreases ==
    [][ /\ (loadEvent'.kind = "started" => get_load_progress' = 0)
        /\ (loadEvent.kind \in {"started", "progress"} /\ loadEvent'.kind = "progress"
              => get_load_progress' >= get_load_progress)
        /\ (loadEvent'.kind = "finished"
              => get_load_progress' = IF loadEvent'.success THEN 100 ELSE -1) ]_vars

\* C1 amended: get_load_progress() is 0 after load-started, is the reported P after
\* every load-progress(P) (higher or lower than the value before), is 100 after
\* load-finished(true) and -1 after load-finished(false), and is 100 before any load event.
C1_ProgressFollowsEvents ==
    /\ (loadEvent.kind = "none" => get_load_progress = 100)
    /\ (loadEvent.kind = "started" => get_load_progress = 0)
    /\ (loadEvent.kind = "progress" => get_load_progress = loadEvent.progress)
    /\ (loadEvent.kind = "finished"
          => get_load_progress = IF loadEvent.success THEN 100 ELSE -1)

\* a failed load has finished, and get_load_progress() reports it
C1_Witness ==
    /\ loadEvent.kind = "finished"
    /\ ~loadEvent.success
    /\ last.op = "loadFinished"
    /\ get_load_progress = -1

\* C2: whenever the page has a native favicon, get_favicon() returns it, whatever
\* the load progress; a status icon is returned only when there is no native favicon.
C2_NativeFaviconWins ==
    /\ (icon \in Favicons => get_favicon = icon)
    /\ (get_favicon \in StatusIcons => icon \notin Favicons)

\* a page with a favicon whose load failed
C2_Witness ==
    /\ icon \in Favicons
    /\ load_progress = -1
    /\ get_favicon = icon

\* C3: with no native favicon, get_favicon() returns the error icon for progress < 0,
\* the loading icon for 0 <= progress < 100 and the default icon for progress = 100.
C3_StatusIconByProgress ==
    icon = NullIcon =>
        get_favicon = IF load_progress < 0 THEN SP_BrowserStop
                      ELSE IF load_progress < 100 THEN SP_BrowserReload
                      ELSE SP_MessageBoxInformation

C5_PermissionDecided ==
    last.op = "featurePermissionRequested" =>
        LET origin == last.arg[1]
            feature == last.arg[2]
            answer == last.arg[3]
            asked == CallsOf("QMessageBox.question")
            written == CallsOf("setFeaturePermission")
            granted == <<"setFeaturePermission", origin, feature, "PermissionGrantedByUser">>
            denied == <<"setFeaturePermission", origin, feature, "PermissionDeniedByUser">>
        IN
        /\ Len(written) = 1
        /\ (feature \notin MappedFeatures => asked = <<>> /\ written = <<denied>>)
        /\ (feature \in MappedFeatures =>
              /\ Len(asked) = 1
              /\ written = IF answer = "Yes" THEN <<granted>> ELSE <<denied>>)

\* C6: certificateError returns accept iff the error is overridable and the user
\* accepts the modal dialog; for a non-overridable error the notice is shown and
\* the result is reject.
C6_CertificateDecision ==
    last.op = "certificateError" =>
        LET overridable == last.arg[1]
            accepted == last.arg[2]
        IN
        IF overridable
        THEN /\ "exec" \in {last.calls[i] : i \in 1..Len(last.calls)}
             /\ last.result = <<accepted>>
        ELSE /\ last.calls = <<"QMessageBox.critical">>
             /\ last.result = <<FALSE>>

\* C7: once set_page has been called, every report of a WebAction's enabled state
\* makes the view emit signal_webaction_state_changed once, with that action and
\* state, and no other handler emits it.
C7_WebactionRelayed ==
    /\ (setPageCalled /\ last.op = "actionChanged"
          => last.emitted = <<OnWebactionChanged(last.arg[1], last.arg[2])>>)
    /\ (last.op # "actionChanged"
          => \A i \in 1..Len(last.emitted) :
                last.emitted[i][1] # "signal_webaction_state_changed")

\* C8: a site or proxy authentication request shows the modal dialog, and when no
\* credentials were entered the engine's QAuthenticator is cleared when the handler
\* returns.
C8_AuthenticatorCleared ==
    last.op \in {"authenticationRequired", "proxyAuthenticationRequired"} =>
        /\ "exec" \in {last.calls[i] : i \in 1..Len(last.calls)}
        /\ last.auth.isNull

\* C9: a context-menu build on a menu with "Inspect Element" relabels the entry and
\* inserts nothing; on a menu without it, one inspect entry is inserted, wired to the
\* dev-tools request, after a new separator iff "View Source" is absent too; the menu
\* is shown in both cases.
C9_ContextMenuBuilt ==
    last.op = "contextMenuEvent" =>
        LET hasViewSource == last.arg[1]
            hasInspect == last.arg[2]
            std == StandardContextMenu(hasViewSource, hasInspect)
            added == {i \in 1..Len(last.menu) : last.menu[i].action = "QAction"}
            seps == {i \in 1..Len(last.menu) : last.menu[i].action = "separator"}
        IN
        /\ Len(last.calls) > 0
        /\ last.calls[Len(last.calls)] = "menu.popup"
        /\ IF hasInspect
           THEN /\ Len(last.menu) = Len(std)
                /\ last.menu = Relabel(std, "InspectElement", "Inspect element")
           ELSE /\ Cardinality(added) = 1
                /\ Len(last.menu) = Len(std) + 1 + Cardinality(seps)
                /\ (Cardinality(seps) = 1) <=> ~hasViewSource
                /\ \A i \in seps : i + 1 \in added
                /\ <<"QAction.triggered", "_on_dev_tools_requested">> \in connections

\* C10: client-certificate selection selects the first certificate of the list,
\* once, and asks nothing.
C10_FirstCertificateSelected ==
    last.op = "selectClientCertificate" =>
        last.calls = << <<"select", AllCerts[1]>> >>

\* C11: createWindow(WebDialog) constructs a PopupWindow, connects its
\* signal_dev_tools_requested to _on_dev_tools_requested and returns the popup's view;
\* from then on every dev-tools request of the popup makes the view emit
\* signal_dev_tools_requested with its page, and the view emits that signal for no
\* other reason than such a request or the context menu's inspect entry.
C11_DevToolsRelayed ==
    /\ (last.op = "createWindow" /\ last.arg = <<"WebDialog">>
          => /\ last.calls = <<"PopupWindow">>
             /\ PopupConnection \in connections
             /\ last.result = <<"PopupWindow.view()">>)
    /\ (last.op = "popupDevToolsRequested"
          => last.emitted = <<DevToolsRequestedEmission>>)
    /\ (last.op \notin {"popupDevToolsRequested", "inspectTriggered"}
          => \A i \in 1..Len(last.emitted) : last.emitted[i] # DevToolsRequestedEmission)
====
